---- MODULE Spec2Model ----
(***************************************************************************)
(* Model of the pthread chat server (server.c with common.h).              *)
(*                                                                         *)
(* One process per handle_client thread plus the main thread.  Every       *)
(* pthread_mutex_lock is a guarded step, so that blocking and lock         *)
(* ordering are visible; the code between two blocking points of a thread  *)
(* is one atomic step.  File descriptors are allocated lowest-free-first,  *)
(* as accept(2) does, so a closed descriptor is reused by the next         *)
(* connection.                                                             *)
(***************************************************************************)
EXTENDS Integers, Sequences, FiniteSets, TLC

\* ------------------------------------------------------------------------
\* Bounds of the model
\* ------------------------------------------------------------------------
NumThreads == 3          \* connections accepted during a run
MaxFrames == 1           \* message frames the clients send during a run
NumLiveThreads == 2      \* connections accepted in the runs of LiveSpec and PairSpec
MaxPairFrames == 2       \* message frames the sender of PairSpec sends

\* Program constants (common.h), scaled down to keep the model finite
MAX_CLIENTS == 2
WHITEBOARD_SIZE == 2

Main == 0
Threads == 1..NumThreads
Procs == 0..NumThreads
Fds == 1..NumThreads             \* descriptors accept() can hand out
Names == {"a", "b"}              \* usernames arriving on the wire
Contents == {"hi"}
Slots == 0..(NumThreads - 1)     \* clients[] and the memory right after it

MessageType == {"MSG_LOGIN", "MSG_LOGOUT", "MSG_BROADCAST", "MSG_PRIVATE", "MSG_ERROR"}

\* Bytes an uninitialised stack field can hold when it is sent
StackGarbage == {"", "a"}

NoMessage == [type |-> "MSG_LOGIN", sender |-> "", recipient |-> "", content |-> <<>>]

NoClient == [socket |-> 0, username |-> ""]
NoScreen == [active |-> -1, lines |-> <<>>]

VARIABLES
    clients,            \* Client clients[MAX_CLIENTS] and the cells behind it
    client_count,       \* int client_count
    clients_mutex,      \* holder of clients_mutex, -1 when free
    whiteboard,         \* Whiteboard whiteboard: messages, current_index
    whiteboard_mutex,   \* holder of whiteboard_mutex, -1 when free
    screen,             \* what the latest step printed: active, lines
    fdtable,            \* descriptor -> thread whose connection it is, -1 closed
    pc,                 \* position of each thread
    client_socket,      \* handle_client: int client_socket
    username,           \* handle_client: char username[]
    msg,                \* handle_client: Message msg / the notice being sent
    peer_socket,        \* send_private_message: recipient_socket / sender_socket
    line,               \* update_whiteboard: the message argument
    uw_ret,             \* where update_whiteboard returns to
    bc_msg,             \* broadcast_message: Message *msg
    bc_ret,             \* where broadcast_message returns to
    nframes,            \* message frames received so far, all connections
    wire,               \* the send() calls of the latest step, in order
    hist,               \* the last WHITEBOARD_SIZE lines appended, oldest first
    nappends            \* appends so far, saturating at WHITEBOARD_SIZE + 1

vars == <<clients, client_count, clients_mutex, whiteboard, whiteboard_mutex,
          screen, fdtable, pc, client_socket, username, msg, peer_socket,
          line, uw_ret, bc_msg, bc_ret, nframes, wire, hist, nappends>>

Free == -1
Closed == -1

\* ------------------------------------------------------------------------
\* Pure helpers
\* ------------------------------------------------------------------------
Min(a, b) == IF a < b THEN a ELSE b

\* get_msg_properties: the type string of a server message type
get_msg_properties(type) ==
    CASE type = "MSG_TYPE_BROADCAST" -> "BROADCAST"
      [] type = "MSG_TYPE_PRIVATE" -> "PRIVATE"
      [] type = "MSG_TYPE_LOGIN" -> "LOGIN"
      [] type = "MSG_TYPE_LOGOUT" -> "LOGOUT"
      [] type = "MSG_TYPE_ERROR" -> "ERROR"
      [] OTHER -> "INFO"

\* format_whiteboard_msg: "<type> - <message>", the line handed to update_whiteboard
format_whiteboard_msg(type, message) == <<get_msg_properties(type), "-">> \o message

\* find_client: index of the first entry with that username, -1 when none
RECURSIVE FindFrom(_, _, _, _)
FindFrom(cl, count, name, i) ==
    IF i >= count THEN -1
    ELSE IF cl[i].username = name THEN i
    ELSE FindFrom(cl, count, name, i + 1)

find_client(name) == FindFrom(clients, client_count, name, 0)

\* mutant: the loop without the sender_socket test
RECURSIVE BroadcastLoopToAll(_, _, _, _)
BroadcastLoopToAll(cl, count, sender_socket, i) ==
    IF i >= count THEN <<>>
    ELSE <<cl[i].socket>> \o BroadcastLoopToAll(cl, count, sender_socket, i + 1)

\* the loop of broadcast_message: sockets send() is called on, in order
RECURSIVE BroadcastLoop(_, _, _, _)
BroadcastLoop(cl, count, sender_socket, i) ==
    IF i >= count THEN <<>>
    ELSE IF cl[i].socket # sender_socket
         THEN <<cl[i].socket>> \o BroadcastLoop(cl, count, sender_socket, i + 1)
         ELSE BroadcastLoop(cl, count, sender_socket, i + 1)

\* send(fd, m) by thread t: the frame reaches the connection the descriptor
\* names at that moment; on a closed descriptor send fails and `to' is Closed
Send(t, fd, m) ==
    [by |-> t, fd |-> fd, to |-> IF fd \in Fds THEN fdtable[fd] ELSE Closed, frame |-> m]

\* one send() per socket of the sequence, in order
SendAll(t, fds, m) == [k \in 1..Len(fds) |-> Send(t, fds[k], m)]

\* the disconnect scan: index of the first entry with that socket, -1 when none
RECURSIVE FindSocketFrom(_, _, _, _)
FindSocketFrom(cl, count, sock, i) ==
    IF i >= count THEN -1
    ELSE IF cl[i].socket = sock THEN i
    ELSE FindSocketFrom(cl, count, sock, i + 1)

\* mutant: the shift loop starting one cell too far
ShiftDownOffByOne(cl, count, i) ==
    [j \in Slots |-> IF j > i /\ j < count - 1 THEN cl[j + 1]
                     ELSE IF j = count - 1 THEN NoClient ELSE cl[j]]

\* mutant: the removal without the shift loop
ShiftDownNoShift(cl, count, i) == cl

\* the shift loop: clients[j] = clients[j + 1] for j in i .. count - 2.  The cell
\* at count - 1 keeps a stale copy in the program; no code reads a cell at or
\* above client_count before writing it, so the model keeps such cells blank.
ShiftDown(cl, count, i) ==
    [j \in Slots |-> IF j >= i /\ j < count - 1 THEN cl[j + 1]
                     ELSE IF j = count - 1 THEN NoClient ELSE cl[j]]

\* the render loop of update_whiteboard: non-empty slots from current_index on
RECURSIVE RenderFrom(_, _)
RenderFrom(wb, i) ==
    IF i >= WHITEBOARD_SIZE THEN <<>>
    ELSE LET idx == (wb.current_index + i) % WHITEBOARD_SIZE
         IN  (IF wb.messages[idx] # <<>> THEN <<wb.messages[idx]>> ELSE <<>>)
             \o RenderFrom(wb, i + 1)

\* accept(): the lowest descriptor that is not open
LowestFree == CHOOSE fd \in Fds : fdtable[fd] = Closed /\ \A g \in Fds : g < fd => fdtable[g] # Closed

\* ------------------------------------------------------------------------
\* Initial state: the static initialisers, main about to start
\* ------------------------------------------------------------------------
Init ==
    /\ clients = [i \in Slots |-> NoClient]
    /\ client_count = 0
    /\ clients_mutex = Free
    /\ whiteboard = [messages |-> [i \in 0..(WHITEBOARD_SIZE - 1) |-> <<>>], current_index |-> 0]
    /\ whiteboard_mutex = Free
    /\ screen = NoScreen
    /\ fdtable = [fd \in Fds |-> Closed]
    /\ pc = [p \in Procs |-> IF p = Main THEN "main_start" ELSE "idle"]
    /\ client_socket = [t \in Threads |-> -1]
    /\ username = [t \in Threads |-> ""]
    /\ msg = [t \in Threads |-> NoMessage]
    /\ peer_socket = [t \in Threads |-> -1]
    /\ line = [p \in Procs |-> <<>>]
    /\ uw_ret = [p \in Procs |-> ""]
    /\ bc_msg = [t \in Threads |-> NoMessage]
    /\ bc_ret = [t \in Threads |-> ""]
    /\ nframes = 0
    /\ wire = <<>>
    /\ hist = <<>>
    /\ nappends = 0

\* ------------------------------------------------------------------------
\* update_whiteboard(message), called by process p with line[p] = message
\* ------------------------------------------------------------------------
\* mutant: the cursor wraps one slot early
WhiteboardWriteWrapEarly(wb, message) ==
    [messages |-> [wb.messages EXCEPT ![wb.current_index] = message],
     current_index |-> (wb.current_index + 1) % (WHITEBOARD_SIZE - 1)]

\* mutant: the cursor is not advanced
WhiteboardWriteNoAdvance(wb, message) ==
    [messages |-> [wb.messages EXCEPT ![wb.current_index] = message],
     current_index |-> wb.current_index]

\* strncpy into messages[current_index]; current_index = (current_index + 1) % SIZE
WhiteboardWrite(wb, message) ==
    [messages |-> [wb.messages EXCEPT ![wb.current_index] = message],
     current_index |-> (wb.current_index + 1) % WHITEBOARD_SIZE]

\* the reference log: the last WHITEBOARD_SIZE appended lines
HistAppend(h, message) ==
    IF Len(h) < WHITEBOARD_SIZE THEN Append(h, message) ELSE Append(Tail(h), message)

Call_update_whiteboard(p, message, ret) ==
    /\ line' = [line EXCEPT ![p] = message]
    /\ uw_ret' = [uw_ret EXCEPT ![p] = ret]
    /\ pc' = [pc EXCEPT ![p] = "uw_lock"]

\* mutant: the append without pthread_mutex_lock(&whiteboard_mutex)
UW_LockUnguarded(p) ==
    /\ pc[p] = "uw_lock"
    /\ whiteboard_mutex' = p
    /\ whiteboard' = WhiteboardWrite(whiteboard, line[p])
    /\ hist' = HistAppend(hist, line[p])
    /\ nappends' = Min(nappends + 1, WHITEBOARD_SIZE + 1)
    /\ pc' = [pc EXCEPT ![p] = "uw_clients"]
    /\ wire' = <<>>
    /\ screen' = NoScreen
    /\ UNCHANGED <<clients, client_count, clients_mutex, fdtable, client_socket,
                   username, msg, peer_socket, line, uw_ret, bc_msg, bc_ret, nframes>>

\* pthread_mutex_lock(&whiteboard_mutex); add the message to the circular buffer
UW_Lock(p) ==
    /\ pc[p] = "uw_lock"
    /\ whiteboard_mutex = Free
    /\ whiteboard_mutex' = p
    /\ whiteboard' = WhiteboardWrite(whiteboard, line[p])
    /\ hist' = HistAppend(hist, line[p])
    /\ nappends' = Min(nappends + 1, WHITEBOARD_SIZE + 1)
    /\ pc' = [pc EXCEPT ![p] = "uw_clients"]
    /\ wire' = <<>>
    /\ screen' = NoScreen
    /\ UNCHANGED <<clients, client_count, clients_mutex, fdtable, client_socket,
                   username, msg, peer_socket, line, uw_ret, bc_msg, bc_ret, nframes>>

\* pthread_mutex_lock(&clients_mutex) while holding whiteboard_mutex; active =
\* client_count; unlock clients_mutex; print the screen; unlock whiteboard_mutex
UW_Render(p) ==
    /\ pc[p] = "uw_clients"
    /\ clients_mutex = Free
    /\ screen' = [active |-> client_count, lines |-> RenderFrom(whiteboard, 0)]
    /\ whiteboard_mutex' = Free
    /\ pc' = [pc EXCEPT ![p] = uw_ret[p]]
    /\ line' = [line EXCEPT ![p] = <<>>]
    /\ uw_ret' = [uw_ret EXCEPT ![p] = ""]
    /\ wire' = <<>>
    /\ UNCHANGED <<clients, client_count, clients_mutex, whiteboard, fdtable,
                   client_socket, username, msg, peer_socket, bc_msg, bc_ret, nframes,
                   hist, nappends>>

\* ------------------------------------------------------------------------
\* main
\* ------------------------------------------------------------------------
\* update_whiteboard("SERVER STARTED")
MainStart ==
    /\ pc[Main] = "main_start"
    /\ Call_update_whiteboard(Main, <<"SERVER STARTED">>, "accept")
    /\ wire' = <<>>
    /\ screen' = NoScreen
    /\ UNCHANGED <<clients, client_count, clients_mutex, whiteboard, whiteboard_mutex,
                   fdtable, client_socket, username, msg, peer_socket, bc_msg, bc_ret,
                   nframes, hist, nappends>>

\* accept() and pthread_create(handle_client): the next thread gets the descriptor
Accept(t) ==
    /\ pc[Main] = "accept"
    /\ pc[t] = "idle"
    /\ \A u \in Threads : u < t => pc[u] # "idle"
    /\ fdtable' = [fdtable EXCEPT ![LowestFree] = t]
    /\ client_socket' = [client_socket EXCEPT ![t] = LowestFree]
    /\ pc' = [pc EXCEPT ![t] = "hs_recv"]
    /\ wire' = <<>>
    /\ screen' = NoScreen
    /\ UNCHANGED <<clients, client_count, clients_mutex, whiteboard, whiteboard_mutex,
                   username, msg, peer_socket, line, uw_ret, bc_msg, bc_ret, nframes,
                   hist, nappends>>

\* ------------------------------------------------------------------------
\* handle_client: handshake
\* ------------------------------------------------------------------------
\* mutant: return NULL without close(client_socket)
CloseAndReturnLeak(t) ==
    /\ fdtable' = fdtable
    /\ pc' = [pc EXCEPT ![t] = "done"]
    /\ client_socket' = [client_socket EXCEPT ![t] = -1]
    /\ username' = [username EXCEPT ![t] = ""]
    /\ msg' = [msg EXCEPT ![t] = NoMessage]
    /\ wire' = <<>>

\* close(client_socket); return NULL: the descriptor is free again, the thread's
\* locals are gone and so is the peer that read from the connection
CloseAndReturn(t) ==
    /\ fdtable' = [fdtable EXCEPT ![client_socket[t]] = Closed]
    /\ pc' = [pc EXCEPT ![t] = "done"]
    /\ client_socket' = [client_socket EXCEPT ![t] = -1]
    /\ username' = [username EXCEPT ![t] = ""]
    /\ msg' = [msg EXCEPT ![t] = NoMessage]
    /\ wire' = <<>>

\* mutant: the failed handshake read answered with an error frame
HsRecvFailReplies(t) ==
    /\ pc[t] = "hs_recv"
    /\ fdtable' = [fdtable EXCEPT ![client_socket[t]] = Closed]
    /\ pc' = [pc EXCEPT ![t] = "done"]
    /\ client_socket' = [client_socket EXCEPT ![t] = -1]
    /\ wire' = <<Send(t, client_socket[t], NoMessage)>>
    /\ screen' = NoScreen
    /\ UNCHANGED <<nframes, clients, client_count, clients_mutex, whiteboard,
                   whiteboard_mutex, peer_socket, line, uw_ret, bc_msg, bc_ret, hist,
                   nappends, username, msg>>

\* recv(username) <= 0: close(client_socket); return
HsRecvFail(t) ==
    /\ pc[t] = "hs_recv"
    /\ CloseAndReturn(t)
    /\ screen' = NoScreen
    /\ UNCHANGED <<nframes, clients, client_count, clients_mutex, whiteboard,
                   whiteboard_mutex, peer_socket, line, uw_ret, bc_msg, bc_ret, hist,
                   nappends>>

DupErrorMsg(name) ==
    [type |-> "MSG_ERROR", sender |-> "Server", recipient |-> "",
     content |-> <<"Username", name, "is already in use">>]

\* recv(username) > 0; find_client(username, NULL): lock, scan, unlock; when the
\* name is found the error reply is sent to client_socket
CheckDup(t, name) ==
    /\ pc[t] = "hs_recv"
    /\ clients_mutex = Free
    /\ username' = [username EXCEPT ![t] = name]
    /\ IF find_client(name) >= 0
       THEN /\ wire' = <<Send(t, client_socket[t], DupErrorMsg(name))>>
            /\ pc' = [pc EXCEPT ![t] = "dup_close"]
       ELSE /\ pc' = [pc EXCEPT ![t] = "register"]
            /\ wire' = <<>>
    /\ screen' = NoScreen
    /\ UNCHANGED <<clients, client_count, clients_mutex, whiteboard, whiteboard_mutex,
                   fdtable, client_socket, msg, peer_socket, line, uw_ret, bc_msg,
                   bc_ret, nframes, hist, nappends>>

\* close(client_socket); return, after the duplicate-name reply
DupClose(t) ==
    /\ pc[t] = "dup_close"
    /\ CloseAndReturn(t)
    /\ screen' = NoScreen
    /\ UNCHANGED <<nframes, clients, client_count, clients_mutex, whiteboard,
                   whiteboard_mutex, peer_socket, line, uw_ret, bc_msg, bc_ret, hist,
                   nappends>>

\* clients[client_count] = {client_socket, username}: the possible contents of the
\* array afterwards.  A write at index >= MAX_CLIENTS lands outside the array,
\* in memory another object owns: the cell reads back as written, or as the
\* bytes the owner put there (here: zeroes).
RegisterWrite(cl, count, sock, name) ==
    IF count < MAX_CLIENTS
    THEN {[cl EXCEPT ![count] = [socket |-> sock, username |-> name]]}
    ELSE {[cl EXCEPT ![count] = c] : c \in {[socket |-> sock, username |-> name], NoClient}}

NoticeMsg(type, name, text) ==
    [type |-> type, sender |-> name, recipient |-> "", content |-> <<text>>]

\* mutant: the registration without the login notice
RegisterNoNotice(t) ==
    /\ pc[t] = "register"
    /\ clients_mutex = Free
    /\ clients' \in RegisterWrite(clients, client_count, client_socket[t], username[t])
    /\ client_count' = client_count + 1
    /\ Call_update_whiteboard(t, format_whiteboard_msg("MSG_TYPE_LOGIN",
                                 <<username[t], "has joined the chat">>), "loop_recv")
    /\ wire' = <<>>
    /\ screen' = NoScreen
    /\ UNCHANGED <<clients_mutex, whiteboard, whiteboard_mutex, fdtable, client_socket,
                   username, msg, peer_socket, nframes, hist, nappends, bc_msg, bc_ret>>

\* lock; clients[client_count] = ...; client_count++; unlock; then the login log
Register(t) ==
    /\ pc[t] = "register"
    /\ clients_mutex = Free
    /\ clients' \in RegisterWrite(clients, client_count, client_socket[t], username[t])
    /\ client_count' = client_count + 1
    /\ bc_msg' = [bc_msg EXCEPT ![t] = NoticeMsg("MSG_LOGIN", username[t], "has joined the chat")]
    /\ bc_ret' = [bc_ret EXCEPT ![t] = "loop_recv"]
    /\ Call_update_whiteboard(t, format_whiteboard_msg("MSG_TYPE_LOGIN",
                                 <<username[t], "has joined the chat">>), "bc_lock")
    /\ wire' = <<>>
    /\ screen' = NoScreen
    /\ UNCHANGED <<clients_mutex, whiteboard, whiteboard_mutex, fdtable, client_socket,
                   username, msg, peer_socket, nframes, hist, nappends>>

\* ------------------------------------------------------------------------
\* broadcast_message(msg, sender_socket), called with bc_msg[t], client_socket[t]
\* ------------------------------------------------------------------------
\* lock clients_mutex; send to every entry whose socket is not sender_socket
BcLock(t) ==
    /\ pc[t] = "bc_lock"
    /\ clients_mutex = Free
    /\ clients_mutex' = t
    /\ wire' = SendAll(t, BroadcastLoop(clients, client_count, client_socket[t], 0), bc_msg[t])
    /\ pc' = [pc EXCEPT ![t] = "bc_unlock"]
    /\ screen' = NoScreen
    /\ UNCHANGED <<clients, client_count, whiteboard, whiteboard_mutex, fdtable,
                   client_socket, username, msg, peer_socket, line, uw_ret, bc_msg,
                   bc_ret, nframes, hist, nappends>>

\* mutant: the broadcast is logged before clients_mutex is released
BcUnlockAfterLog(t) ==
    /\ pc[t] = "bc_unlock"
    /\ Call_update_whiteboard(t, format_whiteboard_msg("MSG_TYPE_BROADCAST",
                                 <<bc_msg[t].sender, ":">> \o bc_msg[t].content), bc_ret[t])
    /\ bc_msg' = [bc_msg EXCEPT ![t] = NoMessage]
    /\ bc_ret' = [bc_ret EXCEPT ![t] = ""]
    /\ wire' = <<>>
    /\ screen' = NoScreen
    /\ UNCHANGED <<clients, client_count, clients_mutex, whiteboard, whiteboard_mutex,
                   fdtable, client_socket, username, msg, peer_socket, nframes, hist,
                   nappends>>

\* unlock clients_mutex; then log the broadcast
BcUnlock(t) ==
    /\ pc[t] = "bc_unlock"
    /\ clients_mutex' = Free
    /\ Call_update_whiteboard(t, format_whiteboard_msg("MSG_TYPE_BROADCAST",
                                 <<bc_msg[t].sender, ":">> \o bc_msg[t].content), bc_ret[t])
    /\ bc_msg' = [bc_msg EXCEPT ![t] = NoMessage]
    /\ bc_ret' = [bc_ret EXCEPT ![t] = ""]
    /\ wire' = <<>>
    /\ screen' = NoScreen
    /\ UNCHANGED <<clients, client_count, whiteboard, whiteboard_mutex, fdtable,
                   client_socket, username, msg, peer_socket, nframes, hist, nappends>>

\* ------------------------------------------------------------------------
\* handle_client: message processing loop, and send_private_message(&msg)
\* ------------------------------------------------------------------------
\* recv(&msg) > 0 with msg.type == MSG_PRIVATE; send_private_message starts with
\* find_client(msg->recipient, &recipient_socket): lock, scan, unlock; max is the
\* number of frames the clients send in a run
RecvPrivateUpTo(t, m, max) ==
    /\ pc[t] = "loop_recv"
    /\ nframes < max
    /\ m.type = "MSG_PRIVATE"
    /\ clients_mutex = Free
    /\ nframes' = nframes + 1
    /\ msg' = [msg EXCEPT ![t] = m]
    /\ LET i == find_client(m.recipient)
       IN  IF i >= 0
           THEN /\ peer_socket' = [peer_socket EXCEPT ![t] = clients[i].socket]
                /\ pc' = [pc EXCEPT ![t] = "pm_send"]
           ELSE /\ peer_socket' = [peer_socket EXCEPT ![t] = -1]
                /\ pc' = [pc EXCEPT ![t] = "pm_find_sender"]
    /\ wire' = <<>>
    /\ screen' = NoScreen
    /\ UNCHANGED <<clients, client_count, clients_mutex, whiteboard, whiteboard_mutex,
                   fdtable, client_socket, username, line, uw_ret, bc_msg, bc_ret,
                   hist, nappends>>

\* the private frame m arrives on connection t
RecvPrivate(t, m) == RecvPrivateUpTo(t, m, MaxFrames)

\* mutant: a received frame of another kind is sent on to everybody
RecvOtherBroadcasts(t, m) ==
    /\ pc[t] = "loop_recv"
    /\ nframes < MaxFrames
    /\ m.type # "MSG_PRIVATE"
    /\ nframes' = nframes + 1
    /\ bc_msg' = [bc_msg EXCEPT ![t] = m]
    /\ bc_ret' = [bc_ret EXCEPT ![t] = "loop_recv"]
    /\ pc' = [pc EXCEPT ![t] = "bc_lock"]
    /\ wire' = <<>>
    /\ screen' = NoScreen
    /\ UNCHANGED <<clients, client_count, clients_mutex, whiteboard, whiteboard_mutex,
                   fdtable, client_socket, username, msg, peer_socket, line,
                   uw_ret, hist, nappends>>

\* recv(&msg) > 0 with msg.type != MSG_PRIVATE: no branch of the loop takes it,
\* and the next recv overwrites msg
RecvOther(t, m) ==
    /\ pc[t] = "loop_recv"
    /\ nframes < MaxFrames
    /\ m.type # "MSG_PRIVATE"
    /\ nframes' = nframes + 1
    /\ wire' = <<>>
    /\ screen' = NoScreen
    /\ UNCHANGED <<clients, client_count, clients_mutex, whiteboard, whiteboard_mutex,
                   fdtable, pc, client_socket, username, msg, peer_socket, line,
                   uw_ret, bc_msg, bc_ret, hist, nappends>>

\* send(recipient_socket, msg); then the PRIVATE log line
PmSend(t) ==
    /\ pc[t] = "pm_send"
    /\ wire' = <<Send(t, peer_socket[t], msg[t])>>
    /\ Call_update_whiteboard(t, format_whiteboard_msg("MSG_TYPE_PRIVATE",
                                 <<msg[t].sender, "to", msg[t].recipient, ":">>
                                 \o msg[t].content), "loop_recv")
    /\ peer_socket' = [peer_socket EXCEPT ![t] = -1]
    /\ msg' = [msg EXCEPT ![t] = NoMessage]
    /\ screen' = NoScreen
    /\ UNCHANGED <<clients, client_count, clients_mutex, whiteboard, whiteboard_mutex,
                   fdtable, client_socket, username, bc_msg, bc_ret, nframes, hist,
                   nappends>>

\* mutant: the not-found branch logs under the default tag
PmErrorLineUntagged(m) ==
    format_whiteboard_msg("MSG_TYPE_NONE",
                          <<m.sender, "tried to message non-existent user", m.recipient>>)

\* the ERROR log line of the not-found branch
PmErrorLine(m) ==
    format_whiteboard_msg("MSG_TYPE_ERROR",
                          <<m.sender, "tried to message non-existent user", m.recipient>>)

\* Message error_msg; type, content and sender are set, recipient is not
PmErrorMsg(m, garbage) ==
    [type |-> "MSG_ERROR", sender |-> "Server", recipient |-> garbage,
     content |-> <<"User", m.recipient, "does not exist or is offline">>]

\* find_client(msg->sender, &sender_socket): lock, scan, unlock
PmFindSender(t) ==
    /\ pc[t] = "pm_find_sender"
    /\ clients_mutex = Free
    /\ LET i == find_client(msg[t].sender)
       IN  IF i >= 0
           THEN /\ peer_socket' = [peer_socket EXCEPT ![t] = clients[i].socket]
                /\ pc' = [pc EXCEPT ![t] = "pm_err_send"]
                /\ UNCHANGED <<line, uw_ret, msg>>
           ELSE /\ Call_update_whiteboard(t, PmErrorLine(msg[t]), "loop_recv")
                /\ msg' = [msg EXCEPT ![t] = NoMessage]
                /\ UNCHANGED peer_socket
    /\ wire' = <<>>
    /\ screen' = NoScreen
    /\ UNCHANGED <<clients, client_count, clients_mutex, whiteboard, whiteboard_mutex,
                   fdtable, client_socket, username, bc_msg, bc_ret, nframes, hist,
                   nappends>>

\* send(sender_socket, &error_msg); then the ERROR log line
PmErrSend(t) ==
    /\ pc[t] = "pm_err_send"
    /\ \E g \in StackGarbage : wire' = <<Send(t, peer_socket[t], PmErrorMsg(msg[t], g))>>
    /\ Call_update_whiteboard(t, PmErrorLine(msg[t]), "loop_recv")
    /\ peer_socket' = [peer_socket EXCEPT ![t] = -1]
    /\ msg' = [msg EXCEPT ![t] = NoMessage]
    /\ screen' = NoScreen
    /\ UNCHANGED <<clients, client_count, clients_mutex, whiteboard, whiteboard_mutex,
                   fdtable, client_socket, username, bc_msg, bc_ret, nframes, hist,
                   nappends>>

\* ------------------------------------------------------------------------
\* handle_client: disconnect
\* ------------------------------------------------------------------------
\* mutant: the removal without pthread_mutex_unlock(&clients_mutex)
RemoveAndLogoutKeepsLock(t) ==
    /\ clients_mutex = Free
    /\ clients_mutex' = t
    /\ LET i == FindSocketFrom(clients, client_count, client_socket[t], 0)
           name == IF i >= 0 THEN clients[i].username ELSE username[t]
       IN  /\ IF i >= 0
              THEN /\ clients' = ShiftDown(clients, client_count, i)
                   /\ client_count' = client_count - 1
              ELSE UNCHANGED <<clients, client_count>>
           /\ username' = [username EXCEPT ![t] = name]
           /\ bc_msg' = [bc_msg EXCEPT ![t] = NoticeMsg("MSG_LOGOUT", name, "has left the chat")]
           /\ Call_update_whiteboard(t, format_whiteboard_msg("MSG_TYPE_LOGOUT",
                                        <<name, "has left the chat">>), "bc_lock")
    /\ bc_ret' = [bc_ret EXCEPT ![t] = "dc_close"]
    /\ wire' = <<>>
    /\ screen' = NoScreen
    /\ UNCHANGED <<whiteboard, whiteboard_mutex, fdtable, client_socket,
                   msg, peer_socket, nframes, hist, nappends>>

\* lock; remove the first entry whose socket is client_socket; unlock; then the
\* logout log line
RemoveAndLogout(t) ==
    /\ clients_mutex = Free
    /\ LET i == FindSocketFrom(clients, client_count, client_socket[t], 0)
           name == IF i >= 0 THEN clients[i].username ELSE username[t]
       IN  /\ IF i >= 0
              THEN /\ clients' = ShiftDown(clients, client_count, i)
                   /\ client_count' = client_count - 1
              ELSE UNCHANGED <<clients, client_count>>
           /\ username' = [username EXCEPT ![t] = name]
           /\ bc_msg' = [bc_msg EXCEPT ![t] = NoticeMsg("MSG_LOGOUT", name, "has left the chat")]
           /\ Call_update_whiteboard(t, format_whiteboard_msg("MSG_TYPE_LOGOUT",
                                        <<name, "has left the chat">>), "bc_lock")
    /\ bc_ret' = [bc_ret EXCEPT ![t] = "dc_close"]
    /\ wire' = <<>>
    /\ screen' = NoScreen
    /\ UNCHANGED <<clients_mutex, whiteboard, whiteboard_mutex, fdtable, client_socket,
                   msg, peer_socket, nframes, hist, nappends>>

\* mutant: the disconnect without the logout notice
DisconnectNoNotice(t) ==
    /\ pc[t] = "loop_recv"
    /\ clients_mutex = Free
    /\ LET i == FindSocketFrom(clients, client_count, client_socket[t], 0)
           name == IF i >= 0 THEN clients[i].username ELSE username[t]
       IN  /\ IF i >= 0
              THEN /\ clients' = ShiftDown(clients, client_count, i)
                   /\ client_count' = client_count - 1
              ELSE UNCHANGED <<clients, client_count>>
           /\ username' = [username EXCEPT ![t] = name]
           /\ Call_update_whiteboard(t, format_whiteboard_msg("MSG_TYPE_LOGOUT",
                                        <<name, "has left the chat">>), "dc_close")
    /\ wire' = <<>>
    /\ screen' = NoScreen
    /\ UNCHANGED <<clients_mutex, whiteboard, whiteboard_mutex, fdtable, client_socket,
                   msg, peer_socket, nframes, hist, nappends, bc_msg, bc_ret>>

\* recv(&msg) <= 0 and the disconnect handling up to the logout log line
Disconnect(t) ==
    /\ pc[t] = "loop_recv"
    /\ RemoveAndLogout(t)

\* recv(&msg) <= 0: the handler is about to lock clients_mutex
RecvFail(t) ==
    /\ pc[t] = "loop_recv"
    /\ pc' = [pc EXCEPT ![t] = "dc_lock"]
    /\ wire' = <<>>
    /\ screen' = NoScreen
    /\ UNCHANGED <<clients, client_count, clients_mutex, whiteboard, whiteboard_mutex,
                   fdtable, client_socket, username, msg, peer_socket, line, uw_ret,
                   bc_msg, bc_ret, nframes, hist, nappends>>

\* the disconnect handling of a handler that waited for clients_mutex
DcRemove(t) ==
    /\ pc[t] = "dc_lock"
    /\ RemoveAndLogout(t)

\* close(client_socket); break; return
DcClose(t) ==
    /\ pc[t] = "dc_close"
    /\ CloseAndReturn(t)
    /\ screen' = NoScreen
    /\ UNCHANGED <<nframes, clients, client_count, clients_mutex, whiteboard,
                   whiteboard_mutex, peer_socket, line, uw_ret, bc_msg, bc_ret, hist,
                   nappends>>

\* ------------------------------------------------------------------------
\* Usernames the client of connection t can send.  The server only compares
\* usernames for equality, so the first connection's name is fixed.
HandshakeNames(t) == IF t = 1 THEN {"a"} ELSE Names

\* Frames the client of connection t puts on the wire: client.c fills sender
\* with its own username
WireFrames(t) ==
    [type : MessageType, sender : {username[t]}, recipient : Names,
     content : {<<c>> : c \in Contents}]

Next ==
    \/ MainStart
    \/ \E p \in Procs : UW_Lock(p)
    \/ \E p \in Procs : UW_Render(p)
    \/ \E t \in Threads : Accept(t)
    \/ \E t \in Threads : HsRecvFail(t)
    \/ \E t \in Threads : \E name \in HandshakeNames(t) : CheckDup(t, name)
    \/ \E t \in Threads : DupClose(t)
    \/ \E t \in Threads : Register(t)
    \/ \E t \in Threads : BcLock(t)
    \/ \E t \in Threads : BcUnlock(t)
    \/ \E t \in Threads : \E m \in WireFrames(t) : RecvPrivate(t, m)
    \/ \E t \in Threads : \E m \in WireFrames(t) : RecvOther(t, m)
    \/ \E t \in Threads : PmSend(t)
    \/ \E t \in Threads : PmFindSender(t)
    \/ \E t \in Threads : PmErrSend(t)
    \/ \E t \in Threads : Disconnect(t)
    \/ \E t \in Threads : DcClose(t)

Spec == Init /\ [][Next]_vars

\* ------------------------------------------------------------------------
\* The same program with the failed recv and the wait for clients_mutex as two
\* steps, under fair scheduling
\* ------------------------------------------------------------------------
LiveThreads == 1..NumLiveThreads

NextLive ==
    \/ MainStart
    \/ \E p \in Procs : UW_Lock(p)
    \/ \E p \in Procs : UW_Render(p)
    \/ \E t \in LiveThreads : Accept(t)
    \/ \E t \in Threads : HsRecvFail(t)
    \/ \E t \in Threads : \E name \in HandshakeNames(t) : CheckDup(t, name)
    \/ \E t \in Threads : DupClose(t)
    \/ \E t \in Threads : Register(t)
    \/ \E t \in Threads : BcLock(t)
    \/ \E t \in Threads : BcUnlock(t)
    \/ \E t \in Threads : \E m \in WireFrames(t) : RecvPrivate(t, m)
    \/ \E t \in Threads : \E m \in WireFrames(t) : RecvOther(t, m)
    \/ \E t \in Threads : PmSend(t)
    \/ \E t \in Threads : PmFindSender(t)
    \/ \E t \in Threads : PmErrSend(t)
    \/ \E t \in Threads : RecvFail(t)
    \/ \E t \in Threads : DcRemove(t)
    \/ \E t \in Threads : DcClose(t)

\* the steps of process p that wait for nothing but the processor and a mutex:
\* every step except the returns of recv and accept, which the peers decide
RunnableStep(p) ==
    \/ UW_Lock(p)
    \/ UW_Render(p)
    \/ /\ p \in Threads
       /\ \/ DupClose(p) \/ Register(p) \/ BcLock(p) \/ BcUnlock(p) \/ PmSend(p)
          \/ PmFindSender(p) \/ PmErrSend(p) \/ DcRemove(p) \/ DcClose(p)

\* a process that can run is eventually run
Fairness == \A p \in Procs : WF_vars(RunnableStep(p))

LiveSpec == Init /\ [][NextLive]_vars /\ Fairness

\* ------------------------------------------------------------------------
\* The same program with one client that sends private messages to "a", one
\* after the other, the first of them when "a" has registered and waits in its
\* receive loop
\* ------------------------------------------------------------------------
PairSender == 2
Addressee == 1

\* the content of the frame the sender's client writes after n earlier ones
PairContent(n) == IF n = 0 THEN "first" ELSE IF n = 1 THEN "second" ELSE "later"

PairFrame(name, text) ==
    [type |-> "MSG_PRIVATE", sender |-> name, recipient |-> "a", content |-> <<text>>]

\* the handler of the first connection is in its receive loop, and its session
\* is the one find_client("a") returns
AddresseeRegistered ==
    /\ pc[Addressee] = "loop_recv"
    /\ find_client("a") >= 0
    /\ clients[find_client("a")].socket = client_socket[Addressee]

RecvPair(t) ==
    /\ t = PairSender
    /\ nframes = 0 => AddresseeRegistered
    /\ RecvPrivateUpTo(t, PairFrame(username[t], PairContent(nframes)), MaxPairFrames)

NextPair ==
    \/ MainStart
    \/ \E p \in Procs : UW_Lock(p)
    \/ \E p \in Procs : UW_Render(p)
    \/ \E t \in LiveThreads : Accept(t)
    \/ \E t \in Threads : HsRecvFail(t)
    \/ \E t \in Threads : \E name \in HandshakeNames(t) : CheckDup(t, name)
    \/ \E t \in Threads : DupClose(t)
    \/ \E t \in Threads : Register(t)
    \/ \E t \in Threads : BcLock(t)
    \/ \E t \in Threads : BcUnlock(t)
    \/ \E t \in Threads : RecvPair(t)
    \/ \E t \in Threads : PmSend(t)
    \/ \E t \in Threads : PmFindSender(t)
    \/ \E t \in Threads : PmErrSend(t)
    \/ \E t \in Threads : Disconnect(t)
    \/ \E t \in Threads : DcClose(t)

PairSpec == Init /\ [][NextPair]_vars

\* ------------------------------------------------------------------------
\* Properties
\* ------------------------------------------------------------------------
\* the registry clients[0 .. client_count - 1], as a sequence
RegistrySeq == [k \in 1..client_count |-> clients[k - 1]]

RemoveAt(seq, k) == SubSeq(seq, 1, k - 1) \o SubSeq(seq, k + 1, Len(seq))

\* steps of thread t, recognised by its positions before and after
HandshakeStep(t) == pc[t] = "hs_recv" /\ pc'[t] \in {"dup_close", "register"}
RegisterStep(t) == pc[t] = "register" /\ pc'[t] = "uw_lock"
BroadcastStep(t) == pc[t] = "bc_lock" /\ pc'[t] = "bc_unlock"
DisconnectStep(t) == pc[t] = "loop_recv" /\ pc'[t] = "uw_lock"

\* C1: no two sessions of the registry share a username.
C1_UniqueUsernames ==
    \A i, j \in 0..(client_count - 1) :
        i # j => clients[i].username # clients[j].username

\* C2: the number of sessions stays within 0 .. MAX_CLIENTS, so no registration
\* writes clients[MAX_CLIENTS] or beyond.
C2_CountWithinCapacity == client_count >= 0 /\ client_count <= MAX_CLIENTS

\* C3: a handshake with a name nobody holds, checked while the registry holds
\* MAX_CLIENTS sessions, is rejected: an error reply goes to that connection, the
\* handler goes on to close it, and the registry is unchanged.
C3_FullRegistryRejects ==
    [][\A t \in Threads :
          (HandshakeStep(t) /\ client_count = MAX_CLIENTS /\ find_client(username'[t]) < 0)
          => /\ pc'[t] = "dup_close"
             /\ Len(wire') = 1 /\ wire'[1].to = t /\ wire'[1].frame.type = "MSG_ERROR"
             /\ UNCHANGED <<clients, client_count>>]_vars

\* C4: a handshake step or a registration step made with a username that a
\* session of the registry holds fails: the registry is unchanged, exactly one
\* error frame is sent, to the offending connection, nothing is logged, and the
\* handler goes on to close the connection.
C4_DuplicateAlwaysFails ==
    [][\A t \in Threads :
          ((HandshakeStep(t) \/ RegisterStep(t)) /\ find_client(username'[t]) >= 0)
          => /\ UNCHANGED <<clients, client_count, whiteboard, line>>
             /\ wire' = <<[by |-> t, fd |-> client_socket[t], to |-> t,
                           frame |-> DupErrorMsg(username'[t])]>>
             /\ pc'[t] = "dup_close"]_vars

\* C5: a private frame the server sends reaches no connection other than a
\* session that carries the recipient's name.
C5_PrivateReachesNamedSession ==
    \A k \in 1..Len(wire) :
        (wire[k].frame.type = "MSG_PRIVATE" /\ wire[k].to # Closed)
        => username[wire[k].to] = wire[k].frame.recipient

\* C6: the error reply for an unknown recipient reaches no connection other
\* than the one whose handler received the private message.
C6_ErrorReplyOnlyToSender ==
    \A k \in 1..Len(wire) :
        (wire[k].frame.type = "MSG_ERROR" /\ wire[k].frame.content[1] = "User"
            /\ wire[k].to # Closed)
        => wire[k].to = wire[k].by

\* the sockets of the registry entries other than sender_socket, in registry order
OtherSockets(sender_socket) ==
    LET others == SelectSeq(RegistrySeq, LAMBDA c : c.socket # sender_socket)
    IN  [k \in 1..Len(others) |-> others[k].socket]

\* C7: a call of broadcast_message sends its message exactly once for every
\* entry the registry holds at the moment of the call, except the entries whose
\* socket is sender_socket, and sends nothing else; the registry cannot change
\* while the caller holds clients_mutex.
C7_BroadcastOncePerSession ==
    [][/\ \A t \in Threads :
             BroadcastStep(t)
             => /\ [k \in 1..Len(wire') |-> wire'[k].fd] = OtherSockets(client_socket[t])
                /\ \A k \in 1..Len(wire') :
                       /\ wire'[k].frame = bc_msg[t]
                       /\ wire'[k].by = t
                       /\ wire'[k].fd \in Fds => wire'[k].to = fdtable[wire'[k].fd]
                       /\ wire'[k].fd \notin Fds => wire'[k].to = Closed
                /\ clients_mutex' = t
       /\ clients_mutex # Free => UNCHANGED <<clients, client_count>>]_vars

\* a broadcast that skipped its sender's own entry and reached another session
C7_Witness ==
    \E t \in Threads :
        /\ pc[t] = "bc_unlock"
        /\ Len(wire) >= 1
        /\ \A k \in 1..Len(wire) : wire[k].by = t /\ wire[k].to \in Threads \ {t}
        /\ \E i \in 0..(client_count - 1) : clients[i].socket = client_socket[t]

\* the slots of the circular buffer that hold a line
UsedSlots == {i \in 0..(WHITEBOARD_SIZE - 1) : whiteboard.messages[i] # <<>>}

\* C8: after n appends the log holds exactly the last min(n, WHITEBOARD_SIZE)
\* appended lines, never more than WHITEBOARD_SIZE, and a render prints them
\* oldest first.
C8_LogKeepsMostRecent ==
    /\ Cardinality(UsedSlots) = Min(nappends, WHITEBOARD_SIZE)
    /\ Len(hist) = Min(nappends, WHITEBOARD_SIZE)
    /\ RenderFrom(whiteboard, 0) = hist
    /\ screen # NoScreen => screen.lines = hist

\* a render after the buffer wrapped around and dropped its oldest line
C8_Witness ==
    /\ nappends > WHITEBOARD_SIZE
    /\ screen # NoScreen
    /\ Len(screen.lines) = WHITEBOARD_SIZE
    /\ whiteboard.current_index # 0

\* C9: whoever holds clients_mutex is inside broadcast_message's critical
\* section and requests no lock; whoever holds whiteboard_mutex is inside
\* update_whiteboard; so no thread waits for whiteboard_mutex while it holds
\* clients_mutex, and the two locks never form a cycle of waiting threads.
C9_NoLockOrderCycle ==
    /\ clients_mutex # Free => pc[clients_mutex] = "bc_unlock"
    /\ whiteboard_mutex # Free => pc[whiteboard_mutex] = "uw_clients"
    /\ \A p \in Procs : ~(clients_mutex = p /\ pc[p] = "uw_lock")
    /\ ~ \E p, q \in Procs :
            /\ clients_mutex = p /\ pc[p] = "uw_lock" /\ whiteboard_mutex # Free
            /\ whiteboard_mutex = q /\ pc[q] = "uw_clients"

\* update_whiteboard holds whiteboard_mutex and waits for clients_mutex, which
\* a broadcasting thread holds
C9_Witness ==
    \E p, q \in Procs :
        /\ p # q
        /\ whiteboard_mutex = p /\ pc[p] = "uw_clients"
        /\ clients_mutex = q /\ pc[q] = "bc_unlock"

\* C10: the removal step of thread t removes the first entry whose socket is
\* client_socket[t] and nothing else, or nothing when there is no such entry;
\* the other entries keep their content and their order, without a gap; and
\* no other step removes an entry.
C10_RemovalOnlyOwnSession ==
    [][LET before == RegistrySeq
           after == RegistrySeq'
           Matches(t) == {k \in 1..Len(before) : before[k].socket = client_socket[t]}
           First(S) == CHOOSE k \in S : \A m \in S : k <= m
       IN  /\ \A t \in Threads :
                  DisconnectStep(t)
                  => IF Matches(t) # {}
                     THEN after = RemoveAt(before, First(Matches(t)))
                     ELSE after = before
           /\ Len(after) < Len(before) => \E t \in Threads : DisconnectStep(t)]_vars

\* a removal that left another session behind it in the registry
C10_Witness ==
    \E t \in Threads :
        /\ pc[t] = "uw_lock" /\ bc_ret[t] = "dc_close" /\ uw_ret[t] = "bc_lock"
        /\ client_count = 2
        /\ \A i \in 0..(client_count - 1) :
               clients[i].socket # client_socket[t] /\ clients[i].socket \in Fds

\* the state of the connection handler t
Phase(t) ==
    CASE pc[t] = "idle" -> "NotStarted"
      [] pc[t] \in {"hs_recv", "register", "dup_close"} -> "Handshaking"
      [] pc[t] = "done" -> "Closed"
      [] OTHER -> "Registered"

PhaseEdges ==
    {<<"NotStarted", "Handshaking">>, <<"Handshaking", "Registered">>,
     <<"Handshaking", "Closed">>, <<"Registered", "Closed">>}

\* C11: a handler moves only along Handshaking -> Registered -> Closed or
\* Handshaking -> Closed; Closed is terminal; the step into Closed comes from the
\* failed handshake read, the duplicate-name rejection or the disconnect, and is
\* the one step that closes the handler's descriptor, which was open until then;
\* a handler in Closed sends nothing.
C11_ConnectionLifecycle ==
    [][\A t \in Threads :
          /\ Phase(t)' # Phase(t) => <<Phase(t), Phase(t)'>> \in PhaseEdges
          /\ Phase(t) = "Closed"
             => Phase(t)' = "Closed" /\ \A k \in 1..Len(wire') : wire'[k].by # t
          /\ (Phase(t) # "Closed" /\ Phase(t)' = "Closed")
             => /\ pc[t] \in {"hs_recv", "dup_close", "dc_close"}
                /\ client_socket[t] \in Fds
                /\ fdtable[client_socket[t]] = t
                /\ fdtable'[client_socket[t]] = Closed
          /\ \A fd \in Fds :
                 (fdtable[fd] = t /\ fdtable'[fd] # t)
                 => Phase(t) # "Closed" /\ Phase(t)' = "Closed" /\ fd = client_socket[t]
          /\ (Phase(t) \in {"Handshaking", "Registered"})
             => client_socket[t] \in Fds /\ fdtable[client_socket[t]] = t]_vars

\* the first handler closed after its logout, another one closed as well, and
\* both descriptors are free again
C11_Witness ==
    /\ pc[1] = "done"
    /\ \E k \in 1..Len(hist) : hist[k] = <<"LOGOUT", "-", "a", "has left the chat">>
    /\ \E u \in Threads \ {1} : pc[u] = "done"
    /\ \A fd \in Fds : fdtable[fd] = Closed

\* the tag of a log line
LineTag(l) == IF Len(l) > 0 THEN l[1] ELSE ""

\* thread t leaves position from, for update_whiteboard with a line tagged tag
\* that returns to ret
LogsNext(t, tag, ret) ==
    /\ pc'[t] = "uw_lock"
    /\ LineTag(line'[t]) = tag
    /\ uw_ret'[t] = ret
    /\ whiteboard' = whiteboard

\* C12: send_private_message takes the found branch exactly when find_client
\* finds the recipient; the found branch ends in one update_whiteboard call with
\* a PRIVATE line, the not-found branch in one with an ERROR line, and
\* broadcast_message in one with a BROADCAST line; an update_whiteboard call
\* writes its line into the log once and only then returns to its caller; and
\* nothing else writes the log.
C12_OneLogEntryPerCall ==
    [][/\ \A t \in Threads :
             /\ (pc[t] = "loop_recv" /\ pc'[t] \in {"pm_send", "pm_find_sender"})
                => /\ pc'[t] = "pm_send" <=> find_client(msg'[t].recipient) >= 0
                   /\ whiteboard' = whiteboard
             /\ (pc[t] = "pm_send" /\ pc'[t] # pc[t]) => LogsNext(t, "PRIVATE", "loop_recv")
             /\ (pc[t] = "pm_find_sender" /\ pc'[t] # pc[t])
                => \/ pc'[t] = "pm_err_send" /\ whiteboard' = whiteboard
                   \/ LogsNext(t, "ERROR", "loop_recv")
             /\ (pc[t] = "pm_err_send" /\ pc'[t] # pc[t]) => LogsNext(t, "ERROR", "loop_recv")
             /\ (pc[t] = "bc_lock" /\ pc'[t] # pc[t])
                => pc'[t] = "bc_unlock" /\ whiteboard' = whiteboard
             /\ (pc[t] = "bc_unlock" /\ pc'[t] # pc[t]) => LogsNext(t, "BROADCAST", bc_ret[t])
       /\ \A p \in Procs :
             /\ (pc[p] = "uw_lock" /\ pc'[p] # pc[p])
                => /\ pc'[p] = "uw_clients"
                   /\ line[p] # <<>>
                   /\ whiteboard'.messages =
                          [whiteboard.messages EXCEPT ![whiteboard.current_index] = line[p]]
                   /\ hist' = HistAppend(hist, line[p])
                   /\ uw_ret'[p] = uw_ret[p]
             /\ (pc[p] = "uw_clients" /\ pc'[p] # pc[p])
                => pc'[p] = uw_ret[p] /\ whiteboard' = whiteboard
       /\ whiteboard' # whiteboard
          => \E p \in Procs : pc[p] = "uw_lock" /\ pc'[p] = "uw_clients"]_vars

\* send_private_message has returned to the receive loop after its PRIVATE line
\* was appended behind the BROADCAST line of a login notice
C12_Witness ==
    /\ \E t \in Threads : pc[t] = "loop_recv" /\ nframes >= 1 /\ msg[t] = NoMessage
    /\ Len(hist) = 2
    /\ LineTag(hist[1]) = "BROADCAST"
    /\ LineTag(hist[2]) = "PRIVATE"
    /\ screen # NoScreen /\ screen.lines = hist

\* the sockets of the registry, in registry order
RegistrySockets == [k \in 1..client_count |-> clients[k - 1].socket]

\* how far handler t is through its disconnect: 0 before and outside it, 1 when
\* the session is removed and the logout line is about to be appended, 2 when
\* the line is in the log, 3 before the notice broadcast, 4 after it, 5 and 6
\* in the log call of broadcast_message, 7 before close, 8 after it
LogoutRank(t) ==
    CASE pc[t] = "uw_lock" /\ uw_ret[t] = "bc_lock" /\ bc_ret[t] = "dc_close" -> 1
      [] pc[t] = "uw_clients" /\ uw_ret[t] = "bc_lock" /\ bc_ret[t] = "dc_close" -> 2
      [] pc[t] = "bc_lock" /\ bc_ret[t] = "dc_close" -> 3
      [] pc[t] = "bc_unlock" /\ bc_ret[t] = "dc_close" -> 4
      [] pc[t] = "uw_lock" /\ uw_ret[t] = "dc_close" -> 5
      [] pc[t] = "uw_clients" /\ uw_ret[t] = "dc_close" -> 6
      [] pc[t] = "dc_close" -> 7
      [] OTHER -> 0

LogoutLine(name) == <<"LOGOUT", "-", name, "has left the chat">>

LogoutNotice(name) ==
    [type |-> "MSG_LOGOUT", sender |-> name, recipient |-> "",
     content |-> <<"has left the chat">>]

\* C13: a failed receive of a registered handler starts this sequence, of which
\* the handler skips no step: its session is removed from the registry; the
\* logout line for its username is appended; the logout notice is sent once to
\* every session the registry then holds, none of them its own; the connection
\* is closed last, and stays open and out of the registry until then.
C13_DisconnectSequence ==
    [][\A t \in Threads :
          /\ (pc[t] = "loop_recv" /\ pc'[t] \notin {"loop_recv", "pm_send", "pm_find_sender"})
             => /\ LogoutRank(t)' = 1
                /\ (\E k \in 1..client_count : RegistrySockets[k] = client_socket[t])
                   => client_count' = client_count - 1
                /\ line'[t] = LogoutLine(username[t])
                /\ bc_msg'[t] = LogoutNotice(username[t])
                /\ wire' = <<>>
          /\ (LogoutRank(t) \in 1..6 /\ pc'[t] # pc[t])
             => LogoutRank(t)' = LogoutRank(t) + 1
          /\ (LogoutRank(t) = 1 /\ pc'[t] # pc[t])
             => hist' = HistAppend(hist, LogoutLine(username[t]))
          /\ (LogoutRank(t) = 3 /\ pc'[t] # pc[t])
             => /\ [k \in 1..Len(wire') |-> wire'[k].fd] = RegistrySockets
                /\ \A k \in 1..Len(wire') :
                       /\ wire'[k].frame = LogoutNotice(username[t])
                       /\ wire'[k].by = t
                       /\ wire'[k].to # t
          /\ (LogoutRank(t) = 7 /\ pc'[t] # pc[t])
             => pc'[t] = "done" /\ fdtable'[client_socket[t]] = Closed
          /\ LogoutRank(t)' \in 1..7
             => /\ fdtable'[client_socket'[t]] = t
                /\ \A k \in 1..client_count' : RegistrySockets'[k] # client_socket'[t]
          /\ (pc'[t] = "dc_close" /\ pc[t] # "dc_close") => LogoutRank(t) = 6]_vars

\* the logout notice of one handler has just been sent to the session that is
\* still registered
C13_Witness ==
    \E t \in Threads :
        /\ LogoutRank(t) = 4
        /\ client_count = 1
        /\ Len(wire) = 1
        /\ wire[1].by = t
        /\ wire[1].frame.type = "MSG_LOGOUT"
        /\ wire[1].to \in Threads \ {t}
        /\ \E k \in 1..Len(hist) : hist[k] = LogoutLine(username[t])

\* how far handler t is through its registration: 1 when the session is in the
\* registry and the login line is about to be appended, 2 when the line is in
\* the log, 3 before the notice broadcast, 4 after it, 5 and 6 in the log call
\* of broadcast_message, 7 in the receive loop, 0 elsewhere
LoginRank(t) ==
    CASE pc[t] = "uw_lock" /\ uw_ret[t] = "bc_lock" /\ bc_ret[t] = "loop_recv" -> 1
      [] pc[t] = "uw_clients" /\ uw_ret[t] = "bc_lock" /\ bc_ret[t] = "loop_recv" -> 2
      [] pc[t] = "bc_lock" /\ bc_ret[t] = "loop_recv" -> 3
      [] pc[t] = "bc_unlock" /\ bc_ret[t] = "loop_recv" -> 4
      [] pc[t] = "uw_lock" /\ uw_ret[t] = "loop_recv" /\ LineTag(line[t]) = "BROADCAST" -> 5
      [] pc[t] = "uw_clients" /\ uw_ret[t] = "loop_recv" /\ LineTag(line[t]) = "BROADCAST" -> 6
      [] pc[t] = "loop_recv" -> 7
      [] OTHER -> 0

LoginLine(name) == <<"LOGIN", "-", name, "has joined the chat">>

LoginNotice(name) ==
    [type |-> "MSG_LOGIN", sender |-> name, recipient |-> "",
     content |-> <<"has joined the chat">>]

\* C14: a handshake that passed the duplicate check performs this sequence, of
\* which the handler skips no step: the session is written at the end of the
\* registry and the count goes up by one; the login line for its username is
\* appended; the login notice is sent once to every session of the registry
\* except its own, and never reaches its own connection; only then does the
\* handler enter the receive loop, the one place from which a private message
\* is routed.
C14_HandshakeSequence ==
    [][\A t \in Threads :
          /\ (pc[t] = "register" /\ pc'[t] # pc[t])
             => /\ LoginRank(t)' = 1
                /\ client_count' = client_count + 1
                /\ client_count < MAX_CLIENTS
                   => clients' = [clients EXCEPT ![client_count] =
                                     [socket |-> client_socket[t], username |-> username[t]]]
                /\ line'[t] = LoginLine(username[t])
                /\ bc_msg'[t] = LoginNotice(username[t])
                /\ wire' = <<>>
          /\ (LoginRank(t) \in 1..6 /\ pc'[t] # pc[t])
             => /\ LoginRank(t)' = LoginRank(t) + 1
                /\ \A k \in 1..Len(wire') :
                       wire'[k].by = t => wire'[k].frame = LoginNotice(username[t])
          /\ (LoginRank(t) = 1 /\ pc'[t] # pc[t])
             => hist' = HistAppend(hist, LoginLine(username[t]))
          /\ (LoginRank(t) = 3 /\ pc'[t] # pc[t])
             => /\ [k \in 1..Len(wire') |-> wire'[k].fd] = OtherSockets(client_socket[t])
                /\ \A k \in 1..Len(wire') :
                       /\ wire'[k].frame = LoginNotice(username[t])
                       /\ wire'[k].by = t
                       /\ wire'[k].fd # client_socket[t]
                       /\ wire'[k].to # t
          /\ (pc'[t] = "loop_recv" /\ pc[t] # "loop_recv")
             => \/ LoginRank(t) = 6
                \/ pc[t] = "uw_clients" /\ LineTag(line[t]) \in {"PRIVATE", "ERROR"}
          /\ (pc'[t] \in {"pm_send", "pm_find_sender"} /\ pc[t] # pc'[t])
             => pc[t] = "loop_recv"
          /\ (pc'[t] = "pm_err_send" /\ pc[t] # pc'[t]) => pc[t] = "pm_find_sender"
          /\ (\E k \in 1..Len(wire') :
                  wire'[k].by = t /\ wire'[k].frame.type \in {"MSG_PRIVATE", "MSG_ERROR"})
             => pc[t] \in {"hs_recv", "pm_send", "pm_err_send"}]_vars

\* the login notice of the second session has just been sent to the first one,
\* and to nobody else
C14_Witness ==
    \E t \in Threads :
        /\ LoginRank(t) = 4
        /\ client_count = 2
        /\ clients[1] = [socket |-> client_socket[t], username |-> username[t]]
        /\ Len(wire) = 1
        /\ wire[1].by = t
        /\ wire[1].frame = LoginNotice(username[t])
        /\ wire[1].to \in Threads \ {t}
        /\ \E k \in 1..Len(hist) : hist[k] = LoginLine(username[t])

\* the processes between the append and the end of the render of update_whiteboard
Appenders == {p \in Procs : pc[p] = "uw_clients"}

\* C15: at most one process is between its append and the end of its render,
\* and it is the holder of whiteboard_mutex; an append takes the free mutex,
\* writes its line into the slot at current_index, leaves the other slots alone
\* and advances current_index by one modulo WHITEBOARD_SIZE; until the render
\* of that call is done no step changes the log or prints the screen; and the
\* render prints the line of its own call as the newest one.
C15_AppendsTotallyOrdered ==
    /\ [](/\ Cardinality(Appenders) <= 1
          /\ \A p \in Procs : whiteboard_mutex = p <=> p \in Appenders)
    /\ [][\A p \in Procs :
             /\ (pc[p] = "uw_lock" /\ pc'[p] # pc[p])
                => /\ whiteboard_mutex = Free /\ whiteboard_mutex' = p
                   /\ whiteboard'.current_index =
                          (whiteboard.current_index + 1) % WHITEBOARD_SIZE
                   /\ \A i \in 0..(WHITEBOARD_SIZE - 1) :
                          whiteboard'.messages[i] =
                              IF i = whiteboard.current_index THEN line[p]
                              ELSE whiteboard.messages[i]
                   /\ line'[p] = line[p]
             /\ (whiteboard_mutex = p /\ pc'[p] = pc[p])
                => whiteboard' = whiteboard /\ screen' = NoScreen /\ whiteboard_mutex' = p
             /\ (whiteboard_mutex = p /\ pc'[p] # pc[p])
                => /\ whiteboard' = whiteboard
                   /\ whiteboard_mutex' = Free
                   /\ screen' # NoScreen
                   /\ screen'.lines = RenderFrom(whiteboard, 0)
                   /\ screen'.lines[Len(screen'.lines)] = line[p]
                   /\ \A q \in Procs \ {p} : pc'[q] = pc[q]
             /\ screen' # NoScreen => \E q \in Procs : whiteboard_mutex = q /\ pc'[q] # pc[q]]_vars

\* one process has appended and waits for clients_mutex before its render, a
\* second one waits with its own line for whiteboard_mutex
C15_Witness ==
    \E p, q \in Procs :
        /\ p # q
        /\ whiteboard_mutex = p /\ pc[p] = "uw_clients"
        /\ pc[q] = "uw_lock" /\ line[q] # <<>>
        /\ clients_mutex \notin {Free, p, q}
        /\ nappends > WHITEBOARD_SIZE

C17_FailedHandshakeLeavesNoTrace ==
    [][\A t \in Threads :
          (pc[t] = "hs_recv" /\ pc'[t] \notin {"hs_recv", "dup_close", "register"})
          => /\ pc'[t] = "done"
             /\ fdtable'[client_socket[t]] = Closed
             /\ UNCHANGED <<clients, client_count, whiteboard, hist, nappends, line>>
             /\ wire' = <<>>
             /\ clients_mutex' # t /\ whiteboard_mutex' # t]_vars

\* a handler ended although nothing but the start of the server was ever
\* logged and nobody ever registered: its username read failed
C17_Witness ==
    \E t \in Threads :
        /\ pc[t] = "done"
        /\ nappends = 1
        /\ client_count = 0
        /\ \A u \in Threads \ {t} : pc[u] \in {"idle", "hs_recv", "done"}
        /\ fdtable[1] = Closed

\* the handlers that enter send_private_message in this step
EntersPrivate == {t \in Threads : pc[t] = "loop_recv" /\ pc'[t] \in {"pm_send", "pm_find_sender"}}

\* C18: a frame received in the loop makes the handler call
\* send_private_message only when its type is MSG_PRIVATE; the receipt of a
\* frame of any other type changes neither the registry nor the log nor any
\* pending log line, sends nothing, closes nothing, takes no lock and leaves
\* every handler where it is, the receiver in its receive loop.
C18_OtherKindsIgnored ==
    [][/\ \A t \in EntersPrivate : msg'[t].type = "MSG_PRIVATE" /\ nframes' = nframes + 1
       /\ (nframes' = nframes + 1 /\ EntersPrivate = {})
          => /\ UNCHANGED <<clients, client_count, whiteboard, hist, nappends, line,
                            fdtable, pc, clients_mutex, whiteboard_mutex, username>>
             /\ wire' = <<>>
             /\ \E t \in Threads : pc[t] = "loop_recv" /\ Phase(t)' = "Registered"]_vars

\* the only session has received its frame, and neither a PRIVATE nor an ERROR
\* line followed its login in the log: the frame was of another kind
C18_Witness ==
    /\ nframes = 1
    /\ pc[1] = "loop_recv"
    /\ \A u \in Threads \ {1} : pc[u] = "idle"
    /\ msg[1] = NoMessage
    /\ hist = <<LoginLine("a"), <<"BROADCAST", "-", "a", ":", "has joined the chat">> >>
    /\ RegistrySeq = <<[socket |-> 1, username |-> "a"]>>

\* C19: every entry of the registry carries the descriptor of an open
\* connection whose handler has registered with that descriptor and username
\* and has not yet run its removal step, and no two entries carry the same
\* descriptor.
C19_EntriesAreOpenSessions ==
    /\ \A i \in 0..(client_count - 1) :
           /\ clients[i].socket \in Fds
           /\ fdtable[clients[i].socket] \in Threads
           /\ LET t == fdtable[clients[i].socket]
              IN  /\ client_socket[t] = clients[i].socket
                  /\ username[t] = clients[i].username
                  /\ Phase(t) = "Registered"
                  /\ LogoutRank(t) = 0
    /\ \A i, j \in 0..(client_count - 1) :
           i # j => clients[i].socket # clients[j].socket

\* the PRIVATE log line of the sender's frame with that content
PairLine(text) ==
    <<"PRIVATE", "-", username[PairSender], "to", "a", ":", text>>

\* the case of C20: the addressee is still registered, and only the sender and
\* the addressee have ever connected, so that the log lines between the two
\* messages are those of these two handlers
PairCase ==
    /\ AddresseeRegistered
    /\ \A u \in Threads \ {Addressee, PairSender} : pc[u] = "idle"

\* the lines of the log, oldest first, as update_whiteboard prints them
LogLines == RenderFrom(whiteboard, 0)

\* C20: with the addressee registered from the first message on, the second
\* message is put on the addressee's connection only when the log line of the
\* first is already the newest line of the log; the PRIVATE line of a message is
\* handed to update_whiteboard in the very step that sends the message to the
\* addressee; the line of the second message enters the log right behind the
\* line of the first, and the log never shows the first behind the second.
C20_PrivateOrderKept ==
    /\ [](PairCase
          => /\ \A k \in 1..Len(wire) :
                    (wire[k].frame.type = "MSG_PRIVATE" /\ wire[k].frame.content = <<"second">>)
                    => /\ wire[k].to = Addressee
                       /\ Len(LogLines) >= 1
                       /\ LogLines[Len(LogLines)] = PairLine("first")
             /\ \A k \in 1..Len(LogLines) :
                    LogLines[k] = PairLine("second")
                    => /\ k >= 2 => LogLines[k - 1] = PairLine("first")
                       /\ \A j \in (k + 1)..Len(LogLines) : LogLines[j] # PairLine("first"))
    /\ [][PairCase'
            => /\ \A text \in {"first", "second"} :
                      (line'[PairSender] = PairLine(text)' /\ line[PairSender] # PairLine(text))
                      => wire' = <<[by |-> PairSender, fd |-> client_socket[Addressee],
                                    to |-> Addressee,
                                    frame |-> PairFrame(username[PairSender], text)]>>
               /\ (whiteboard' # whiteboard
                      /\ LogLines'[Len(LogLines')] = PairLine("second")')
                  => /\ Len(LogLines') >= 2
                     /\ LogLines'[Len(LogLines') - 1] = PairLine("first")']_vars

\* both messages are delivered and logged, the first line before the second,
\* and the sender is back in its receive loop
C20_Witness ==
    /\ PairCase
    /\ pc[PairSender] = "loop_recv"
    /\ nframes = 2
    /\ LogLines = <<PairLine("first"), PairLine("second")>>
    /\ username[PairSender] = "b"

\* the registry entries that carry that username
NamedEntries(name) == {i \in 0..(client_count - 1) : clients[i].username = name}

\* C21: the removal step of a registered handler takes one entry of its
\* username out of the registry; a handshake whose duplicate check then finds
\* no entry of the name it supplies is not rejected: no error frame is sent,
\* the connection stays open and the handler goes on to its registration,
\* which adds a session of that name on the handler's connection.
C21_NameFreeAfterRemoval ==
    [][\A t \in Threads :
          /\ (DisconnectStep(t)
                 /\ \E i \in 0..(client_count - 1) : clients[i].socket = client_socket[t])
             => Cardinality(NamedEntries(username[t])')
                    = Cardinality(NamedEntries(username[t])) - 1
          /\ (HandshakeStep(t) /\ NamedEntries(username'[t]) = {})
             => /\ pc'[t] = "register"
                /\ wire' = <<>>
                /\ fdtable' = fdtable
                /\ UNCHANGED <<clients, client_count>>
          /\ RegisterStep(t)
             => /\ client_count' = client_count + 1
                /\ fdtable'[client_socket[t]] = t
                /\ client_count < MAX_CLIENTS
                   => /\ clients'[client_count] =
                             [socket |-> client_socket[t], username |-> username[t]]
                      /\ NamedEntries(username[t])' = NamedEntries(username[t]) \cup {client_count}]_vars

\* the first session, named "a", has logged out and closed; the second
\* connection, accepted afterwards on the descriptor that became free, has
\* supplied "a", is registered under it and has logged its login behind the
\* log line of the first session's logout notice
C21_Witness ==
    /\ pc[1] = "done"
    /\ pc[2] = "bc_lock"
    /\ pc[3] = "idle"
    /\ client_socket[2] = 1
    /\ username[2] = "a"
    /\ RegistrySeq = <<[socket |-> 1, username |-> "a"]>>
    /\ hist = << <<"BROADCAST", "-", "a", ":", "has left the chat">>, LoginLine("a") >>

====
